---- MODULE Spec2Model ----
(***************************************************************************)
(* Model of the typed resource handle of fyrox-resource (src/lib.rs):      *)
(* Resource<T>, its state guards, its Future implementation and the        *)
(* state container it shares with every clone.  The container's own        *)
(* operations (commit, the untyped poll, set_path, identity) live in       *)
(* state.rs / untyped.rs and are modelled from the design specification.   *)
(***************************************************************************)
EXTENDS Naturals, FiniteSets, Sequences, Bags, TLC

\* ------------------------------------------------------------------ bounds
\* containers ever allocated, handles held by user code at one time, awaiters,
\* and the number of all of these together
MaxCont == 2
MaxHandles == 2
NumTasks == 2
MaxObjects == 4
MaxLen == 2
\* longest text of the text box
MaxText == 3
\* characters that fit in one line of the text box
LineWidth == 2

\* ------------------------------------------------------------ value sets
ContIds == 1..MaxCont
Tasks == 1..NumTasks

TypeTags == {"ANIM", "TEX"}
Untyped == "Untyped"
Paths == {"a.anim", "b.anim"}
Errors == {"io", "decode"}
NoVal == "-"

\* the arguments the constructors are called with
CtorTags == {"ANIM"}
CtorPaths == {"a.anim"}
CtorErrors == {"io"}

\* the error the loader reports, and the one a guard holder may store
LoaderErrors == {"io"}
GuardErrors == {"decode"}

\* lock owners
NoOne == <<"none", 0>>
Loader == <<"loader", 0>>
Consumer == <<"consumer", 0>>
Editor == <<"editor", 0>>

\* walk: a run of collect_used_resources; dm: the editor's DataModel;
\* disk: the files written; tb: a text box of the user interface
VARIABLES cont, hist, lock, handles, task, ld, cs, last, walk, dm, disk, tb

vars == <<cont, hist, lock, handles, task, ld, cs, last, walk, dm, disk, tb>>

\* no collection is running, no data model is open, nothing is on disk
NoWalk == [pc |-> "none", entity |-> NoVal, before |-> {}, collection |-> {}, stack |-> <<>>, calls |-> 0]

NoModel == [pc |-> "none", saved |-> FALSE, resource |-> NoVal, path |-> NoVal]

NoDisk == [p \in Paths |-> NoVal]

\* selection_range: None
NoSelection == [begin |-> [line |-> 0, offset |-> 0], end |-> [line |-> 0, offset |-> 0], some |-> FALSE]

\* the text box as TextBoxBuilder::build makes it, with the empty text of
\* TextBoxBuilder::new; evt is the event handled last and out its outcome
NoTextBox ==
    [text |-> <<>>, caret_line |-> 0, caret_offset |-> 0,
     selection_range |-> NoSelection, selecting |-> FALSE,
     evt |-> [kind |-> "none", arg |-> ""], out |-> "ok"]

\* ------------------------------------------------- ResourceState values
FreeState == [st |-> "Free", path |-> NoVal, type_uuid |-> NoVal, wakers |-> {}, error |-> NoVal]

DestroyedState == [st |-> "Destroyed", path |-> NoVal, type_uuid |-> NoVal, wakers |-> {}, error |-> NoVal]

PendingState(p, ty) == [st |-> "Pending", path |-> p, type_uuid |-> ty, wakers |-> {}, error |-> NoVal]

LoadErrorState(p, e, ty) == [st |-> "LoadError", path |-> p, type_uuid |-> ty, wakers |-> {}, error |-> e]

\* Ok(data): the data is known by its type and its path (ResourceData::type_uuid,
\* ResourceData::path); the rest of its content is not represented
OkState(p, ty) == [st |-> "Ok", path |-> p, type_uuid |-> ty, wakers |-> {}, error |-> NoVal]

Terminal(s) == s.st \in {"Ok", "LoadError"}

Alive(c) == cont[c].st \in {"Pending", "Ok", "LoadError"}

\* ----------------------------------------------------------- handles
\* A handle is a value [c, ty, root]: the container it refers to, the type
\* parameter of its view (Untyped for an UntypedResource) and, as history,
\* the constructor call it descends from.
HandleVal(c, ty, root) == [c |-> c, ty |-> ty, root |-> root]

NoHandle == [c |-> 0, ty |-> NoVal, root |-> 0]

Held == BagToSet(handles)

Allocated == {c \in ContIds : cont[c].st # "Free"}

NewContId == Cardinality(Allocated) + 1

Started == {t \in Tasks : task[t].st # "none"}

Size == Cardinality(Allocated) + BagCardinality(handles) + Cardinality(Started)

\* room for n more objects, one of them a handle
CanHold(n) == BagCardinality(handles) < MaxHandles /\ Size + n <= MaxObjects

\* the awaits in flight or resolved, whose future still owns its handle
LiveTasks == {t \in Tasks : task[t].st \notin {"none", "dropped"}}

TaskHandles == {task[t].hv : t \in LiveTasks}

TaskResults == {task[t].res : t \in {u \in Tasks : task[u].st = "done" /\ task[u].out = "Ok"}}

AllHandles == Held \cup TaskHandles \cup TaskResults

NoInfo == [st |-> NoVal, path |-> NoVal, ty |-> NoVal, val |-> NoVal, err |-> NoVal]

Op(op, hv, out) == [op |-> op, hv |-> hv, out |-> out]

\* the outcome of a call that the state does not show (a panic, a refused
\* try_lock, a value read), until its caller has taken it; Quiet otherwise
Quiet == Op("-", NoHandle, "ok")

NoTask == [st |-> "none", hv |-> NoHandle, out |-> NoVal, res |-> NoHandle, err |-> NoVal, first |-> NoVal, wakes |-> 0]

\* history of a container: the commits that took effect on it, and the error
\* of a commit_error
NoHist == [commits |-> 0, err |-> NoVal]

IdleLoader == [pc |-> "idle", c |-> 0, taken |-> {}]

IdleConsumer == [pc |-> "idle", hv |-> NoHandle]

\* ------------------------------------------------------------- Init
Init ==
    /\ cont = [c \in ContIds |-> FreeState]
    /\ hist = [c \in ContIds |-> NoHist]
    /\ lock = [c \in ContIds |-> NoOne]
    /\ handles = EmptyBag
    /\ task = [t \in Tasks |-> NoTask]
    /\ ld = IdleLoader
    /\ cs = IdleConsumer
    /\ last = Quiet
    /\ walk = NoWalk
    /\ dm = NoModel
    /\ disk = NoDisk
    /\ tb = NoTextBox

\* ------------------------------------------------------- constructors
\* UntypedResource::new_*: a freshly allocated container and one handle to it
Construct(ty, s) ==
    /\ CanHold(2)
    /\ NewContId \in ContIds
    /\ cont' = [cont EXCEPT ![NewContId] = s]
    /\ handles' = handles (+) SetToBag({HandleVal(NewContId, ty, NewContId)})
    /\ last' = Quiet
    /\ UNCHANGED <<tb, walk, dm, disk, hist, lock, task, ld, cs>>

\* faulty variant: new_pending that builds a container already loaded
NewPendingTerminal(ty, p) == Construct(ty, OkState(p, ty))

NewPending(ty, p) == Construct(ty, PendingState(p, ty))

NewOk(ty, p) == Construct(ty, OkState(p, ty))

NewLoadError(ty, p, e) == Construct(ty, LoadErrorState(p, e, ty))

\* the path of T::default()
DefaultPath == "default"

\* faulty variant: a default handle that waits for a load
DefaultPending(ty) == Construct(ty, PendingState(DefaultPath, ty))

\* Resource::default(): a new container holding Ok(T::default())
Default(ty) == Construct(ty, OkState(DefaultPath, ty))

\* ---------------------------------------------------- clone and drop
\* faulty variant: a clone that copies the container instead of sharing it
CloneTargetCopy(hv) == NewContId

\* the container the clone refers to: the same one (Arc clone)
CloneTarget(hv) == hv.c

Clone(hv) ==
    /\ hv \in Held
    /\ CanHold(1)
    /\ CloneTarget(hv) \in ContIds
    /\ handles' = handles (+) SetToBag({[hv EXCEPT !.c = CloneTarget(hv)]})
    /\ last' = Quiet
    /\ UNCHANGED <<tb, walk, dm, disk, cont, hist, lock, task, ld, cs>>

\* faulty variant: a count that misses the handles owned by awaits
UseCountHeld(c) ==
    BagCardinality([v \in {x \in Held : x.c = c} |-> handles[v]]) + (IF ld.c = c THEN 1 ELSE 0)

\* Resource::use_count: live owners of the container (user-held handles, the
\* futures and results of awaits, the loader's own clone while it commits,
\* the handle of an open DataModel)
UseCount(c) ==
    BagCardinality([v \in {x \in Held : x.c = c} |-> handles[v]]) + Cardinality({t \in LiveTasks : task[t].hv.c = c})
                 + Cardinality({t \in Tasks : task[t].st = "done" /\ task[t].out = "Ok" /\ task[t].res.c = c})
                 + (IF ld.c = c THEN 1 ELSE 0)
                 + (IF dm.pc # "none" /\ dm.resource.c = c THEN 1 ELSE 0)

\* the borrow checker keeps a handle alive while a guard borrowed from it lives
Borrowed(hv) == cs.hv = hv /\ CopiesIn(hv, handles) = 1

\* the containers after one owner of c went away
AfterRelease(c) == IF UseCount(c) = 1 THEN [cont EXCEPT ![c] = DestroyedState] ELSE cont

\* dropping the last handle destroys the container (shared-ownership teardown)
Drop(hv) ==
    /\ hv \in Held
    /\ ~Borrowed(hv)
    /\ handles' = handles (-) SetToBag({hv})
    /\ cont' = AfterRelease(hv.c)
    /\ last' = Quiet
    /\ UNCHANGED <<tb, walk, dm, disk, hist, lock, task, ld, cs>>

\* ------------------------------------------- identity, equality, key
\* UntypedResource::key: the address of the container
UntypedKey(hv) == hv.c

\* UntypedResource == UntypedResource: pointer equality of the containers
UntypedEq(a, b) == a.c = b.c

Key(hv) == UntypedKey(hv)

\* faulty variant: equality by content instead of identity
ResourceEqContent(a, b) == cont[a.c] = cont[b.c]

ResourceEq(a, b) == UntypedEq(a, b)

ResourceHash(hv) == UntypedKey(hv)

\* ------------------------------------------------ typed / untyped views
\* UntypedResource::type_uuid
UntypedTypeUuid(c) == cont[c].type_uuid

IntoUntyped(hv) ==
    /\ hv \in Held
    /\ hv.ty \in TypeTags
    /\ ~Borrowed(hv)
    /\ handles' = (handles (-) SetToBag({hv})) (+) SetToBag({[hv EXCEPT !.ty = Untyped]})
    /\ last' = Quiet
    /\ UNCHANGED <<tb, walk, dm, disk, cont, hist, lock, task, ld, cs>>

\* faulty variant: the conversion without its assertion
FromCheckAny(hv, ty) == TRUE

\* assert_eq!(untyped.type_uuid(), T::type_uuid())
FromCheck(hv, ty) == UntypedTypeUuid(hv.c) = ty

\* From<UntypedResource> for Resource<ty>; a failed assertion unwinds and drops
\* the untyped handle that was moved in
FromUntyped(hv, ty) ==
    /\ hv \in Held
    /\ hv.ty = Untyped
    /\ lock[hv.c] = NoOne
    /\ IF FromCheck(hv, ty)
       THEN /\ handles' = (handles (-) SetToBag({hv})) (+) SetToBag({[hv EXCEPT !.ty = ty]})
            /\ last' = Quiet
            /\ cont' = cont
       ELSE /\ handles' = handles (-) SetToBag({hv})
            /\ last' = Op("from", [hv EXCEPT !.ty = ty], "panic")
            /\ cont' = AfterRelease(hv.c)
    /\ UNCHANGED <<tb, walk, dm, disk, hist, lock, task, ld, cs>>

\* ------------------------------------------------------ state predicates
StateInner(hv) == cont[hv.c]

IsLoading(hv) == StateInner(hv).st = "Pending"

\* faulty variant: is_ok as "not failed"
IsOkNotFailed(hv) == StateInner(hv).st # "LoadError"

IsOk(hv) == StateInner(hv).st = "Ok"

IsFailedToLoad(hv) == StateInner(hv).st = "LoadError"

Path(hv) == StateInner(hv).path

\* ResourceState::set_path under the container lock
UntypedSetPath(c, p) == [cont EXCEPT ![c].path = p]

\* faulty variant: set_path that reaches the path field of Pending and
\* LoadError only, not the path of the data
SetPathNotOk(hv, p) ==
    /\ hv \in Held
    /\ hv.ty \in TypeTags
    /\ lock[hv.c] = NoOne
    /\ cont' = IF cont[hv.c].st = "Ok" THEN cont ELSE UntypedSetPath(hv.c, p)
    /\ last' = Op("set_path", hv, "ok")
    /\ UNCHANGED <<tb, walk, dm, disk, hist, lock, handles, task, ld, cs>>

SetPath(hv, p) ==
    /\ hv \in Held
    /\ hv.ty \in TypeTags
    /\ lock[hv.c] = NoOne
    /\ cont' = UntypedSetPath(hv.c, p)
    /\ last' = Op("set_path", hv, "ok")
    /\ UNCHANGED <<tb, walk, dm, disk, hist, lock, handles, task, ld, cs>>

\* ------------------------------------------------- guards (checked access)
\* a typed view can only downcast data of its own type: expect("Type mismatch!")
Downcasts(hv) == StateInner(hv).type_uuid = hv.ty

\* ResourceStateGuard::get: the variant with what it carries, or a panic when
\* the Ok data is not a T
Get(hv) ==
    LET s == StateInner(hv) IN
    CASE s.st = "Pending" -> [st |-> "Pending", path |-> s.path, ty |-> s.type_uuid, val |-> NoVal, err |-> NoVal]
      [] s.st = "LoadError" -> [st |-> "LoadError", path |-> s.path, ty |-> s.type_uuid, val |-> NoVal, err |-> s.error]
      [] s.st = "Ok" /\ Downcasts(hv) -> [st |-> "Ok", path |-> s.path, ty |-> s.type_uuid, val |-> s.path, err |-> NoVal]
      [] OTHER -> [NoInfo EXCEPT !.st = "panic"]

\* faulty variant: state() that takes the state out of the container and
\* leaves a Pending one behind
StateTakes(hv) ==
    /\ cs.pc = "idle"
    /\ hv \in Held
    /\ hv.ty \in TypeTags
    /\ lock[hv.c] = NoOne
    /\ lock' = [lock EXCEPT ![hv.c] = Consumer]
    /\ cs' = [pc |-> "guard", hv |-> hv]
    /\ cont' = [cont EXCEPT ![hv.c] = PendingState(@.path, @.type_uuid)]
    /\ last' = Quiet
    /\ UNCHANGED <<tb, walk, dm, disk, hist, handles, task, ld>>

\* Resource::state: blocks until the lock is free, then holds it
State(hv) ==
    /\ cs.pc = "idle"
    /\ hv \in Held
    /\ hv.ty \in TypeTags
    /\ lock[hv.c] = NoOne
    /\ lock' = [lock EXCEPT ![hv.c] = Consumer]
    /\ cs' = [pc |-> "guard", hv |-> hv]
    /\ last' = Quiet
    /\ UNCHANGED <<tb, walk, dm, disk, cont, hist, handles, task, ld>>

\* faulty variant: try_acquire_state that waits for the lock as state() does
TryAcquireStateBlocks(hv) == State(hv)

\* Resource::try_acquire_state: try_lock, None when the lock is held
TryAcquireState(hv) ==
    /\ cs.pc = "idle"
    /\ hv \in Held
    /\ hv.ty \in TypeTags
    /\ IF lock[hv.c] = NoOne
       THEN /\ lock' = [lock EXCEPT ![hv.c] = Consumer]
            /\ cs' = [pc |-> "guard", hv |-> hv]
            /\ last' = Quiet
       ELSE /\ last' = Op("try_acquire_state", NoHandle, "none")
            /\ UNCHANGED <<lock, cs>>
    /\ UNCHANGED <<tb, walk, dm, disk, cont, hist, handles, task, ld>>

\* what a caller can store through the references get_mut hands out:
\* Pending: the path; LoadError: the path or the error; Ok: the data (its
\* path, through ResourceData::set_path)
Writable(s, k, v) ==
    \/ k = "path" /\ v \in Paths /\ s.st \in {"Pending", "LoadError", "Ok"}
    \/ k = "error" /\ v \in GuardErrors /\ s.st = "LoadError"

\* faulty variant: get_mut hands out the whole state and the caller stores a
\* Pending one
WrittenReset(s, k, v) == PendingState(s.path, s.type_uuid)

Written(s, k, v) ==
    CASE k = "path" -> [s EXCEPT !.path = v]
      [] k = "error" -> [s EXCEPT !.error = v]

WriteKinds == {"path", "error"}

WriteVals == Paths \cup Errors

\* ResourceStateGuard::get_mut followed by a store through the reference;
\* a failed downcast panics and the unwinding drops the guard
GetMut(k, v) ==
    /\ cs.pc = "guard"
    /\ IF Get(cs.hv).st = "panic"
       THEN /\ cont' = cont
            /\ lock' = [lock EXCEPT ![cs.hv.c] = NoOne]
            /\ cs' = IdleConsumer
            /\ last' = Op("get_mut", cs.hv, "panic")
       ELSE /\ Writable(StateInner(cs.hv), k, v)
            /\ cont' = [cont EXCEPT ![cs.hv.c] = Written(StateInner(cs.hv), k, v)]
            /\ last' = Quiet
            /\ UNCHANGED <<lock, cs>>
    /\ UNCHANGED <<tb, walk, dm, disk, hist, handles, task, ld>>

\* the guard goes out of scope (ResourceStateGuard or ResourceDataRef)
GuardDrop ==
    /\ cs.pc \in {"guard", "dataref"}
    /\ lock' = [lock EXCEPT ![cs.hv.c] = NoOne]
    /\ cs' = IdleConsumer
    /\ last' = Quiet
    /\ UNCHANGED <<tb, walk, dm, disk, cont, hist, handles, task, ld>>

\* ---------------------------------------------- data_ref (unchecked access)
DataRef(hv) ==
    /\ cs.pc = "idle"
    /\ hv \in Held
    /\ hv.ty \in TypeTags
    /\ lock[hv.c] = NoOne
    /\ lock' = [lock EXCEPT ![hv.c] = Consumer]
    /\ cs' = [pc |-> "dataref", hv |-> hv]
    /\ last' = Quiet
    /\ UNCHANGED <<tb, walk, dm, disk, cont, hist, handles, task, ld>>

\* faulty variant: a dereference that does not look at the variant
DerefResultUnchecked(hv) ==
    LET s == StateInner(hv) IN
    [st |-> "Ok", path |-> s.path, ty |-> s.type_uuid, val |-> s.path, err |-> NoVal]

\* Deref / DerefMut for ResourceDataRef: the data when Ok, a panic otherwise
DerefResult(hv) ==
    LET s == StateInner(hv) IN
    CASE s.st = "Pending" -> [NoInfo EXCEPT !.st = "panic"]
      [] s.st = "LoadError" -> [NoInfo EXCEPT !.st = "panic"]
      [] s.st = "Ok" /\ Downcasts(hv) -> [st |-> "Ok", path |-> s.path, ty |-> s.type_uuid, val |-> s.path, err |-> NoVal]
      [] OTHER -> [NoInfo EXCEPT !.st = "panic"]

\* faulty variant: a panic in the dereference that leaves the lock held
DerefKeepsLock ==
    /\ cs.pc = "dataref"
    /\ IF DerefResult(cs.hv).st = "panic"
       THEN /\ lock' = lock
            /\ cs' = IdleConsumer
            /\ last' = Op("deref", cs.hv, "panic")
       ELSE /\ last' = Op("deref", NoHandle, "ok")
            /\ UNCHANGED <<lock, cs>>
    /\ UNCHANGED <<tb, walk, dm, disk, cont, hist, handles, task, ld>>

\* *data_ref(): a read through Deref; a panic unwinds and drops the guard
Deref ==
    /\ cs.pc = "dataref"
    /\ IF DerefResult(cs.hv).st = "panic"
       THEN /\ lock' = [lock EXCEPT ![cs.hv.c] = NoOne]
            /\ cs' = IdleConsumer
            /\ last' = Op("deref", cs.hv, "panic")
       ELSE /\ last' = Op("deref", NoHandle, "ok")
            /\ UNCHANGED <<lock, cs>>
    /\ UNCHANGED <<tb, walk, dm, disk, cont, hist, handles, task, ld>>

\* a store through DerefMut (data_ref().set_path(p), or a new value)
DerefMut(k, v) ==
    /\ cs.pc = "dataref"
    /\ IF DerefResult(cs.hv).st = "panic"
       THEN /\ cont' = cont
            /\ lock' = [lock EXCEPT ![cs.hv.c] = NoOne]
            /\ cs' = IdleConsumer
            /\ last' = Op("deref_mut", cs.hv, "panic")
       ELSE /\ k # "error"
            /\ Writable(StateInner(cs.hv), k, v)
            /\ cont' = [cont EXCEPT ![cs.hv.c] = Written(StateInner(cs.hv), k, v)]
            /\ last' = Quiet
            /\ UNCHANGED <<lock, cs>>
    /\ UNCHANGED <<tb, walk, dm, disk, hist, handles, task, ld>>

\* ------------------------------------------------------ deserialization
\* Visit for Resource<T>, reading: self.untyped is replaced by the handle
\* that was read, whatever its type tag; target is the container read: one
\* already in the visitor's map (shared), or a freshly built one
VisitTarget(hv, c2) == [c |-> c2, ty |-> hv.ty, root |-> c2]

\* the states read from a file in this model: an external resource of the
\* handle's own type (restored as Pending, to be loaded again) and an embedded
\* resource of another type
VisitStates == {PendingState("a.anim", "ANIM"), OkState("a.anim", "TEX")}

VisitShared(hv, c2) ==
    /\ hv \in Held
    /\ hv.ty \in TypeTags
    /\ ~Borrowed(hv)
    /\ Alive(c2)
    /\ c2 # hv.c
    /\ handles' = (handles (-) SetToBag({hv})) (+) SetToBag({VisitTarget(hv, c2)})
    /\ cont' = AfterRelease(hv.c)
    /\ last' = Quiet
    /\ UNCHANGED <<tb, walk, dm, disk, hist, lock, task, ld, cs>>

VisitFresh(hv, s) ==
    /\ hv \in Held
    /\ hv.ty \in TypeTags
    /\ ~Borrowed(hv)
    /\ NewContId \in ContIds
    /\ Size + 1 <= MaxObjects
    /\ handles' = (handles (-) SetToBag({hv})) (+) SetToBag({VisitTarget(hv, NewContId)})
    /\ cont' = [AfterRelease(hv.c) EXCEPT ![NewContId] = s]
    /\ last' = Quiet
    /\ UNCHANGED <<tb, walk, dm, disk, hist, lock, task, ld, cs>>

\* the old format stored Option<UntypedResource>: None makes unwrap() panic
VisitNone(hv) ==
    /\ hv \in Held
    /\ hv.ty \in TypeTags
    /\ ~Borrowed(hv)
    /\ last' = Op("visit", NoHandle, "panic")
    /\ UNCHANGED <<tb, walk, dm, disk, cont, hist, lock, handles, task, ld, cs>>

\* ----------------------------------------------------------- the loader
\* ResourceState::commit: valid only from Pending
CommitAllowed(s) == s.st = "Pending"

\* faulty variant: a commit that leaves the wakers registered
CommitOkStateKeepsWakers(s, p) == [OkState(p, s.type_uuid) EXCEPT !.wakers = s.wakers]

\* commit_ok(data) / commit_error(error): the state stored
CommitOkState(s, p) == OkState(p, s.type_uuid)

CommitErrorState(s, e) == LoadErrorState(s.path, e, s.type_uuid)

\* lock, assert Pending, store the terminal state; the wakers are kept aside
\* to be notified.  On a terminal container the assertion fails, nothing is
\* stored and the unwinding releases the lock.
CommitStore(c, new) ==
    /\ ld.pc = "idle"
    /\ c \in ContIds
    /\ Alive(c)
    /\ lock[c] = NoOne
    /\ IF CommitAllowed(cont[c])
       THEN /\ cont' = [cont EXCEPT ![c] = new]
            /\ hist' = [hist EXCEPT ![c].commits = @ + 1, ![c].err = new.error]
            /\ lock' = [lock EXCEPT ![c] = Loader]
            /\ ld' = [pc |-> "stored", c |-> c, taken |-> cont[c].wakers]
            /\ last' = Quiet
       ELSE /\ last' = Op("commit", NoHandle, "panic")
            /\ UNCHANGED <<cont, hist, lock, ld>>
    /\ UNCHANGED <<tb, walk, dm, disk, handles, task, cs>>

CommitOk(c, p) == CommitStore(c, CommitOkState(cont[c], p))

CommitError(c, e) == CommitStore(c, CommitErrorState(cont[c], e))

\* Waker::wake: the task becomes runnable
Woken(tk) == IF tk.st = "suspended" THEN [tk EXCEPT !.st = "woken", !.wakes = @ + 1] ELSE tk

\* every waker taken from the Pending state is invoked, once, under the lock
CommitNotify ==
    /\ ld.pc = "stored"
    /\ task' = [t \in Tasks |-> IF t \in ld.taken THEN Woken(task[t]) ELSE task[t]]
    /\ ld' = [ld EXCEPT !.pc = "notified", !.taken = {}]
    /\ last' = Quiet
    /\ UNCHANGED <<tb, walk, dm, disk, cont, hist, lock, handles, cs>>

\* the guard is dropped, and with it the loader's own clone of the handle
CommitUnlock ==
    /\ ld.pc = "notified"
    /\ lock' = [lock EXCEPT ![ld.c] = NoOne]
    /\ cont' = AfterRelease(ld.c)
    /\ ld' = IdleLoader
    /\ last' = Quiet
    /\ UNCHANGED <<tb, walk, dm, disk, hist, handles, task, cs>>

\* --------------------------------------------------------------- await
\* handle.clone().await: a task is spawned that owns a clone of the handle
\* (tasks are taken in order)
StartAwait(t, hv) ==
    /\ task[t].st = "none"
    /\ \A u \in Tasks : u < t => task[u].st # "none"
    /\ hv \in Held
    /\ hv.ty \in TypeTags
    /\ Size + 1 <= MaxObjects
    /\ task' = [task EXCEPT ![t] = [NoTask EXCEPT !.st = "new", !.hv = [hv EXCEPT !.c = CloneTarget(hv)]]]
    /\ last' = Quiet
    /\ UNCHANGED <<tb, walk, dm, disk, cont, hist, lock, handles, ld, cs>>

\* what is left of a dropped await: the container it waited on
Dropped(tk) == [NoTask EXCEPT !.st = "dropped", !.hv = tk.hv]

\* faulty variant: dropping an await gives up the load
DropAwaitCancels(t) ==
    /\ task[t].st \in {"new", "suspended", "woken"}
    /\ task' = [task EXCEPT ![t] = Dropped(@)]
    /\ cont' = [AfterRelease(task[t].hv.c) EXCEPT ![task[t].hv.c] =
                    IF @.st = "Pending" THEN LoadErrorState(@.path, "io", @.type_uuid) ELSE @]
    /\ last' = Quiet
    /\ UNCHANGED <<tb, walk, dm, disk, hist, lock, handles, ld, cs>>

\* an await in flight is abandoned: the future, a Resource<T>, is dropped
\* and releases its handle; the waker it registered stays with the container
DropAwait(t) ==
    /\ task[t].st \in {"new", "suspended", "woken"}
    /\ task' = [task EXCEPT ![t] = Dropped(@)]
    /\ cont' = AfterRelease(task[t].hv.c)
    /\ last' = Quiet
    /\ UNCHANGED <<tb, walk, dm, disk, hist, lock, handles, ld, cs>>

\* Future for UntypedResource: under the lock, a Pending state registers the
\* waker and stays pending; LoadError is ready with the error; Ok is ready
\* with a clone of the handle
UntypedPoll(hv) ==
    LET s == cont[hv.c] IN
    CASE s.st = "Pending" -> [kind |-> "Pending", res |-> NoHandle, err |-> NoVal]
      [] s.st = "LoadError" -> [kind |-> "Err", res |-> NoHandle, err |-> s.error]
      [] OTHER -> [kind |-> "Ok", res |-> hv, err |-> NoVal]

RegisterWaiter(s, t) == IF s.st = "Pending" THEN [s EXCEPT !.wakers = @ \cup {t}] ELSE s

\* faulty variants of the typed poll: one that is ready without polling the
\* container, one that loses a ready error, one that answers with a handle
\* to another container instead of self.clone()
ResourcePollEager(hv) == [kind |-> "Ok", res |-> hv, err |-> NoVal]

ResourcePollDropsError(hv) ==
    LET r == UntypedPoll([hv EXCEPT !.ty = Untyped]) IN
    IF r.kind = "Ok" THEN [r EXCEPT !.res = hv] ELSE [r EXCEPT !.kind = "Pending", !.err = NoVal]

ResourcePollFresh(hv) ==
    LET r == UntypedPoll([hv EXCEPT !.ty = Untyped]) IN
    IF r.kind = "Ok" THEN [r EXCEPT !.res = [hv EXCEPT !.c = NewContId]] ELSE r

\* Future for Resource<T>: poll a clone of the untyped handle, and map a
\* ready Ok to self.clone()
ResourcePoll(hv) ==
    LET r == UntypedPoll([hv EXCEPT !.ty = Untyped]) IN
    IF r.kind = "Ok" THEN [r EXCEPT !.res = [hv EXCEPT !.c = CloneTarget(hv)]] ELSE r

\* faulty variant: the state is checked but the waker is not registered
PollForgetsWaker(t) ==
    /\ task[t].st \in {"new", "suspended", "woken"}
    /\ lock[task[t].hv.c] = NoOne
    /\ LET hv == task[t].hv
           r == ResourcePoll(hv)
           first == IF task[t].first # NoVal THEN task[t].first ELSE IF Terminal(cont[hv.c]) THEN "Terminal" ELSE "Pending"
       IN /\ task' = [task EXCEPT ![t] =
                 IF r.kind = "Pending"
                 THEN [@ EXCEPT !.st = "suspended", !.first = first]
                 ELSE [@ EXCEPT !.st = "done", !.out = r.kind, !.res = r.res, !.err = r.err, !.first = first]]
          /\ last' = Quiet
    /\ UNCHANGED <<tb, walk, dm, disk, cont, hist, lock, handles, ld, cs>>

Poll(t) ==
    /\ task[t].st \in {"new", "suspended", "woken"}
    /\ lock[task[t].hv.c] = NoOne
    /\ LET hv == task[t].hv
           r == ResourcePoll(hv)
           first == IF task[t].first # NoVal THEN task[t].first ELSE IF Terminal(cont[hv.c]) THEN "Terminal" ELSE "Pending"
       IN /\ cont' = [cont EXCEPT ![hv.c] = RegisterWaiter(@, t)]
          /\ task' = [task EXCEPT ![t] =
                 IF r.kind = "Pending"
                 THEN [@ EXCEPT !.st = "suspended", !.first = first]
                 ELSE [@ EXCEPT !.st = "done", !.out = r.kind, !.res = r.res, !.err = r.err, !.first = first]]
          /\ last' = Quiet
    /\ UNCHANGED <<tb, walk, dm, disk, hist, lock, handles, ld, cs>>

\* no outcome is waiting for its caller
Ready == last = Quiet

\* the caller takes the outcome of its call
Return ==
    /\ last # Quiet
    /\ last' = Quiet
    /\ UNCHANGED <<tb, walk, dm, disk, cont, hist, lock, handles, task, ld, cs>>

\* one call, or one step of the loader or of an awaiter, once the outcome of
\* the call before has been taken
Next ==
    \/ Ready /\ \E ty \in CtorTags, p \in CtorPaths : NewPending(ty, p)
    \/ Ready /\ \E ty \in CtorTags, p \in CtorPaths : NewOk(ty, p)
    \/ Ready /\ \E ty \in CtorTags, p \in CtorPaths, e \in CtorErrors : NewLoadError(ty, p, e)
    \/ Ready /\ \E ty \in CtorTags : Default(ty)
    \/ Ready /\ \E hv \in Held : Clone(hv)
    \/ Ready /\ \E hv \in Held : Drop(hv)
    \/ Ready /\ \E hv \in Held : IntoUntyped(hv)
    \/ Ready /\ \E hv \in Held, ty \in TypeTags : FromUntyped(hv, ty)
    \/ Ready /\ \E hv \in Held, p \in Paths : SetPath(hv, p)
    \/ Ready /\ \E hv \in Held : State(hv)
    \/ Ready /\ \E hv \in Held : TryAcquireState(hv)
    \/ Ready /\ \E k \in WriteKinds, v \in WriteVals : GetMut(k, v)
    \/ Ready /\ GuardDrop
    \/ Ready /\ \E hv \in Held : DataRef(hv)
    \/ Ready /\ Deref
    \/ Ready /\ \E k \in WriteKinds, v \in WriteVals : DerefMut(k, v)
    \/ Ready /\ \E hv \in Held, c2 \in ContIds : VisitShared(hv, c2)
    \/ Ready /\ \E hv \in Held, s \in VisitStates : VisitFresh(hv, s)
    \/ Ready /\ \E hv \in Held : VisitNone(hv)
    \/ Ready /\ \E c \in ContIds, p \in Paths : CommitOk(c, p)
    \/ Ready /\ \E c \in ContIds, e \in LoaderErrors : CommitError(c, e)
    \/ Ready /\ CommitNotify
    \/ Ready /\ CommitUnlock
    \/ Ready /\ \E t \in Tasks, hv \in Held : StartAwait(t, hv)
    \/ Ready /\ \E t \in Tasks : Poll(t)
    \/ Ready /\ \E t \in Tasks : DropAwait(t)
    \/ Return

Spec == Init /\ [][Next]_vars

\* the executor polls again a task that is new or was woken
Scheduled(t) == task[t].st \in {"new", "woken"} /\ Poll(t)

\* fair scheduling: a caller takes the outcome of its call, a guard goes out
\* of scope, the loader goes through its commit, and the executor polls a
\* runnable task, which gets the lock if it is free again and again
FairSpec ==
    /\ Spec
    /\ WF_vars(Return)
    /\ WF_vars(GuardDrop)
    /\ WF_vars(CommitNotify)
    /\ WF_vars(CommitUnlock)
    /\ \A t \in Tasks : SF_vars(Scheduled(t))

\* ------------------------------------------------- DataModel::save
\* the editor opens a data model on an animation resource it holds
OpenModel(hv) ==
    /\ dm.pc = "none"
    /\ hv \in Held
    /\ hv.ty \in TypeTags
    /\ dm' = [pc |-> "idle", saved |-> FALSE, resource |-> [hv EXCEPT !.c = CloneTarget(hv)], path |-> NoVal]
    /\ last' = Quiet
    /\ UNCHANGED <<tb, walk, disk, cont, hist, lock, handles, task, ld, cs>>

\* an editor command changes the animation: the model is dirty again
Modify ==
    /\ dm.pc = "idle"
    /\ dm.saved
    /\ dm' = [dm EXCEPT !.saved = FALSE]
    /\ last' = Quiet
    /\ UNCHANGED <<tb, walk, disk, cont, hist, lock, handles, task, ld, cs>>

\* faulty variant: save that does not look at the saved flag
SaveAlways(p) ==
    /\ dm.pc = "idle"
    /\ dm' = [dm EXCEPT !.pc = "set_path", !.path = p]
    /\ last' = Quiet
    /\ UNCHANGED <<tb, walk, disk, cont, hist, lock, handles, task, ld, cs>>

\* save(path): if !self.saved { ... }, nothing otherwise
Save(p) ==
    /\ dm.pc = "idle"
    /\ IF ~dm.saved
       THEN /\ dm' = [dm EXCEPT !.pc = "set_path", !.path = p]
            /\ last' = Quiet
       ELSE /\ dm' = dm
            /\ last' = Op("save", NoHandle, "ok")
    /\ UNCHANGED <<tb, walk, disk, cont, hist, lock, handles, task, ld, cs>>

\* faulty variant: a set_path that does not go through the checked
\* dereference and so does not panic on a resource that is not Ok
SaveSetPathUnchecked ==
    /\ dm.pc = "set_path"
    /\ lock[dm.resource.c] = NoOne
    /\ cont' = UntypedSetPath(dm.resource.c, dm.path)
    /\ dm' = [dm EXCEPT !.pc = "state"]
    /\ last' = Quiet
    /\ UNCHANGED <<tb, walk, disk, hist, lock, handles, task, ld, cs>>

\* self.resource.data_ref().set_path(path.clone()): the guard is taken, the
\* data is reached through DerefMut (a panic unless Ok), its path is set
\* and the guard, a temporary, is dropped with the statement
SaveSetPath ==
    /\ dm.pc = "set_path"
    /\ lock[dm.resource.c] = NoOne
    /\ IF DerefResult(dm.resource).st = "panic"
       THEN /\ cont' = cont
            /\ dm' = [dm EXCEPT !.pc = "idle", !.path = NoVal]
            /\ last' = Op("save", NoHandle, "panic")
       ELSE /\ cont' = UntypedSetPath(dm.resource.c, dm.path)
            /\ dm' = [dm EXCEPT !.pc = "state"]
            /\ last' = Quiet
    /\ UNCHANGED <<tb, walk, disk, hist, lock, handles, task, ld, cs>>

\* if let ResourceState::Ok(ref mut state) = *self.resource.state(): the
\* guard is a temporary of the scrutinee and lives to the end of the if let
SaveState ==
    /\ dm.pc = "state"
    /\ lock[dm.resource.c] = NoOne
    /\ IF cont[dm.resource.c].st = "Ok"
       THEN /\ lock' = [lock EXCEPT ![dm.resource.c] = Editor]
            /\ dm' = [dm EXCEPT !.pc = "write"]
       ELSE /\ lock' = lock
            /\ dm' = [dm EXCEPT !.pc = "flag"]
    /\ last' = Quiet
    /\ UNCHANGED <<tb, walk, disk, cont, hist, handles, task, ld, cs>>

\* what the visitor holds of the animation definition
Definition(s) == <<"Definition", s.type_uuid>>

\* state.animation_definition.visit(..); visitor.save_binary(&path): the
\* file is written
SaveBinary ==
    /\ dm.pc = "write"
    /\ disk' = [disk EXCEPT ![dm.path] = Definition(cont[dm.resource.c])]
    /\ dm' = [dm EXCEPT !.pc = "written"]
    /\ last' = Quiet
    /\ UNCHANGED <<tb, walk, cont, hist, lock, handles, task, ld, cs>>

\* visitor.save_binary(&path).unwrap() on an I/O error: the panic unwinds,
\* drops the guard and leaves the flag as it was
SaveBinaryFails ==
    /\ dm.pc = "write"
    /\ lock' = [lock EXCEPT ![dm.resource.c] = NoOne]
    /\ dm' = [dm EXCEPT !.pc = "idle", !.path = NoVal]
    /\ last' = Op("save", NoHandle, "panic")
    /\ UNCHANGED <<tb, walk, disk, cont, hist, handles, task, ld, cs>>

\* the if let ends and drops the guard
SaveGuardDrop ==
    /\ dm.pc = "written"
    /\ lock' = [lock EXCEPT ![dm.resource.c] = NoOne]
    /\ dm' = [dm EXCEPT !.pc = "flag"]
    /\ last' = Quiet
    /\ UNCHANGED <<tb, walk, disk, cont, hist, handles, task, ld, cs>>

\* self.saved = true
SaveFlag ==
    /\ dm.pc = "flag"
    /\ dm' = [dm EXCEPT !.pc = "idle", !.saved = TRUE, !.path = NoVal]
    /\ last' = Quiet
    /\ UNCHANGED <<tb, walk, disk, cont, hist, lock, handles, task, ld, cs>>

\* the editor saving, next to the loader and to a consumer of the resource
SaveNext ==
    \/ Ready /\ \E ty \in CtorTags, p \in CtorPaths : NewPending(ty, p)
    \/ Ready /\ \E ty \in CtorTags, p \in CtorPaths : NewOk(ty, p)
    \/ Ready /\ \E ty \in CtorTags, p \in CtorPaths, e \in CtorErrors : NewLoadError(ty, p, e)
    \/ Ready /\ \E hv \in Held : Drop(hv)
    \/ Ready /\ \E hv \in Held, p \in Paths : SetPath(hv, p)
    \/ Ready /\ \E hv \in Held : State(hv)
    \/ Ready /\ GuardDrop
    \/ Ready /\ \E c \in ContIds, p \in Paths : CommitOk(c, p)
    \/ Ready /\ \E c \in ContIds, e \in LoaderErrors : CommitError(c, e)
    \/ Ready /\ CommitNotify
    \/ Ready /\ CommitUnlock
    \/ Ready /\ \E hv \in Held : OpenModel(hv)
    \/ Ready /\ Modify
    \/ Ready /\ \E p \in Paths : Save(p)
    \/ Ready /\ SaveSetPath
    \/ Ready /\ SaveState
    \/ Ready /\ SaveBinary
    \/ Ready /\ SaveBinaryFails
    \/ Ready /\ SaveGuardDrop
    \/ Ready /\ SaveFlag
    \/ Return

SaveSpec == Init /\ [][SaveNext]_vars

\* ------------------------------------------- collect_used_resources
\* the untyped handles met in the entities: two handle values of container 1
\* and one of container 2 (n tells the handle values of a container apart)
WalkHandles == {[c |-> 1, n |-> 1], [c |-> 1, n |-> 2], [c |-> 2, n |-> 1]}

NoResource == [c |-> 0, n |-> 0]

\* what reflection shows of an entity
Entity(kind, res, items) == [kind |-> kind, res |-> res, items |-> items]

\* a Vec of numbers, and an UntypedResource
Numbers == Entity("numbers", NoResource, <<>>)

ResourceLeaf(h) == Entity("resource", h, <<>>)

Leaves == {Numbers} \cup {ResourceLeaf(h) : h \in WalkHandles}

SeqsUpTo(S, n) == UNION {[1..k -> S] : k \in 0..n}

\* arrays and structures of up to MaxLen leaves, inheritable variables, hash
\* maps of at most one entry
Inner ==
    Leaves
    \cup {Entity("array", NoResource, q) : q \in SeqsUpTo(Leaves, MaxLen)}
    \cup {Entity("struct", NoResource, q) : q \in SeqsUpTo(Leaves, MaxLen)}
    \cup {Entity("inheritable", NoResource, <<x>>) : x \in Leaves}
    \cup {Entity("hash_map", NoResource, q) : q \in SeqsUpTo(Leaves \X Leaves, 1)}

\* the entities walked: the above, and structures and arrays of two of
\* them, hash maps with one of them as key and one as value, inheritable
\* variables of one
Outer(kind, x, y) ==
    CASE kind = "self" -> x
      [] kind = "inheritable" -> Entity(kind, NoResource, <<x>>)
      [] kind = "hash_map" -> Entity(kind, NoResource, << <<x, y>> >>)
      [] OTHER -> Entity(kind, NoResource, <<x, y>>)

OuterKinds == {"self", "inheritable", "hash_map", "array", "struct"}

\* the second part of an entity of that kind
Seconds(kind) == IF kind \in {"self", "inheritable"} THEN {Numbers} ELSE Inner

\* the collections a caller may pass: hash sets of untyped handles
Collections == {S \in SUBSET WalkHandles : \A a, b \in S : UntypedEq(a, b) => a = b}

\* type_is::<Vec<u8>>(entity) || ... || type_is::<Vec<f64>>(entity)
IsNumericVec(entity) == entity.kind = "numbers"

\* faulty variant: a set keyed by the handle value, not by the container
HashSetInsertByValue(collection, h) == collection \cup {h}

\* FxHashSet::insert: equal elements (the same container) are stored once
HashSetInsert(collection, h) ==
    IF \E e \in collection : UntypedEq(e, h) THEN collection ELSE collection \cup {h}

RECURSIVE CollectUsedResources(_, _)
RECURSIVE CollectEach(_, _)
RECURSIVE CollectEntries(_, _)
RECURSIVE CollectEntriesValuesOnly(_, _)

\* for item in items { collect_used_resources(item, collection) }
CollectEach(items, collection) ==
    IF items = <<>> THEN collection
    ELSE CollectEach(Tail(items), CollectUsedResources(Head(items), collection))

\* faulty variant: a walk of the values of a hash map only
CollectEntriesValuesOnly(entries, collection) ==
    IF entries = <<>> THEN collection
    ELSE CollectEntriesValuesOnly(Tail(entries), CollectUsedResources(Head(entries)[2], collection))

\* for (key, value) in hash_map { collect(key); collect(value) }
CollectEntries(entries, collection) ==
    IF entries = <<>> THEN collection
    ELSE CollectEntries(Tail(entries),
             CollectUsedResources(Head(entries)[2],
                 CollectUsedResources(Head(entries)[1], collection)))

\* collect_used_resources(entity, resources_collection)
CollectUsedResources(entity, collection) ==
    IF IsNumericVec(entity) THEN collection
    ELSE IF entity.kind = "resource" THEN HashSetInsert(collection, entity.res)
    ELSE IF entity.kind = "array" THEN CollectEach(entity.items, collection)
    ELSE IF entity.kind = "inheritable" THEN CollectUsedResources(entity.items[1], collection)
    ELSE IF entity.kind = "hash_map" THEN CollectEntries(entity.items, collection)
    ELSE CollectEach(entity.items, collection)

\* a caller is about to collect from an entity into a collection it has
CollectInit ==
    /\ Init!1 /\ Init!2 /\ Init!3 /\ Init!4 /\ Init!5 /\ Init!6 /\ Init!7 /\ Init!8
    /\ dm = NoModel
    /\ disk = NoDisk
    /\ tb = NoTextBox
    /\ \E kind \in OuterKinds, x \in Inner, S \in Collections :
           \E y \in Seconds(kind) :
               walk = [NoWalk EXCEPT !.pc = "start", !.entity = Outer(kind, x, y), !.before = S, !.collection = S]

\* the call
Collect ==
    /\ walk.pc = "start"
    /\ walk' = [walk EXCEPT !.pc = "done", !.collection = CollectUsedResources(walk.entity, @)]
    /\ UNCHANGED <<tb, cont, hist, lock, handles, task, ld, cs, last, dm, disk>>

CollectNext == Collect

CollectSpec == CollectInit /\ [][CollectNext]_vars

\* ------------------------------- collect_used_resources, call by call
\* what reflection would show of the data of the container a handle refers
\* to: the data of container 1 holds a handle of container 2 and the data
\* of container 2 a handle of container 1
DataOf(h) ==
    Entity("struct", NoResource, <<ResourceLeaf([c |-> 3 - h.c, n |-> 1])>>)

\* faulty variant: a walk that goes on into the data of a resource
ChildrenIntoData(entity) ==
    IF IsNumericVec(entity) THEN <<>>
    ELSE IF entity.kind = "resource" THEN <<DataOf(entity.res)>>
    ELSE IF entity.kind = "hash_map"
         THEN IF entity.items = <<>> THEN <<>> ELSE <<entity.items[1][1], entity.items[1][2]>>
         ELSE entity.items

\* the entities the call on an entity calls itself on, in order: none for
\* a vector of numbers and for a resource, the items of an array, the inner
\* value of an inheritable variable, key and value of the entries of a hash
\* map, the fields otherwise
Children(entity) ==
    IF IsNumericVec(entity) THEN <<>>
    ELSE IF entity.kind = "resource" THEN <<>>
    ELSE IF entity.kind = "hash_map"
         THEN IF entity.items = <<>> THEN <<>> ELSE <<entity.items[1][1], entity.items[1][2]>>
         ELSE entity.items

\* a caller is about to collect from an entity into an empty collection
WalkInit ==
    /\ Init!1 /\ Init!2 /\ Init!3 /\ Init!4 /\ Init!5 /\ Init!6 /\ Init!7 /\ Init!8
    /\ dm = NoModel
    /\ disk = NoDisk
    /\ tb = NoTextBox
    /\ \E kind \in OuterKinds, x \in Inner :
           \E y \in Seconds(kind) \cap Leaves :
               walk = [NoWalk EXCEPT !.pc = "walking", !.entity = Outer(kind, x, y),
                                     !.stack = <<Outer(kind, x, y)>>]

\* one call of collect_used_resources: the entity on top of the stack of
\* calls still to make; a resource is inserted, the children are called next
WalkCall ==
    /\ walk.pc = "walking"
    /\ walk.stack # <<>>
    /\ LET e == Head(walk.stack) IN
          walk' = [walk EXCEPT
                      !.collection = IF ~IsNumericVec(e) /\ e.kind = "resource"
                                     THEN HashSetInsert(@, e.res) ELSE @,
                      !.stack = Children(e) \o Tail(@),
                      !.calls = @ + 1]
    /\ UNCHANGED <<tb, cont, hist, lock, handles, task, ld, cs, last, dm, disk>>

\* the outermost call returns
WalkReturn ==
    /\ walk.pc = "walking"
    /\ walk.stack = <<>>
    /\ walk' = [walk EXCEPT !.pc = "done"]
    /\ UNCHANGED <<tb, cont, hist, lock, handles, task, ld, cs, last, dm, disk>>

WalkNext == WalkCall \/ WalkReturn

\* the calls are made one after the other and the walk is not interrupted
WalkSpec == WalkInit /\ [][WalkNext]_vars /\ WF_vars(WalkNext)

\* ================================================================ claims
\* the container an awaiter waits on
Awaited(t) == task[t].hv.c

\* one commit_ok took effect on c, and no other commit
CommittedOk(c) == hist[c].commits = 1 /\ hist[c].err = NoVal

\* one commit_error took effect on c, and no other commit
CommittedError(c) == hist[c].commits = 1 /\ hist[c].err # NoVal

\* C1: awaiters registered on one Pending container all resolve Ok after the
\* single commit_ok, each once: none is resolved before the commit, none is
\* woken twice, a suspended awaiter is always still registered or about to be
\* notified (no lost wakeup), and a resolved awaiter is not resolved again.
C1_Inv ==
    \A t \in Started :
        LET tk == task[t]
            c == Awaited(t)
        IN /\ tk.wakes <= 1
           /\ tk.st = "suspended" =>
                  \/ cont[c].st = "Pending" /\ t \in cont[c].wakers
                  \/ ld.pc = "stored" /\ ld.c = c /\ t \in ld.taken
           /\ tk.first = "Pending" /\ tk.st \in {"woken", "done"} =>
                  hist[c].commits = 1 /\ tk.wakes = 1
           /\ tk.first = "Pending" /\ tk.st = "done" /\ CommittedOk(c) =>
                  tk.out = "Ok" /\ tk.res.c = c /\ tk.res.ty = tk.hv.ty

C1_Step == \A t \in Tasks : task[t].st = "done" => task'[t] = task[t]

C1_AwaitersResolveOnce == []C1_Inv /\ [][C1_Step]_vars

\* every awaiter registered while Pending and resolved Ok by one commit_ok
C1_Witness ==
    \E c \in ContIds :
        /\ CommittedOk(c)
        /\ \A t \in Tasks :
               /\ task[t].st = "done" /\ task[t].first = "Pending"
               /\ task[t].out = "Ok" /\ Awaited(t) = c /\ task[t].wakes = 1

C3_Step ==
    /\ \A ty \in CtorTags, p \in CtorPaths :
           NewPending(ty, p) =>
               cont'[NewContId] = PendingState(p, ty) /\ hist'[NewContId].commits = 0
    /\ \A c \in ContIds :
           hist'[c].commits # hist[c].commits =>
               /\ cont[c].st = "Pending" /\ Terminal(cont'[c])
               /\ hist[c].commits = 0 /\ hist'[c].commits = 1
    /\ \A c \in ContIds, p \in Paths :
           cont[c].st = "Pending" /\ CommitOk(c, p) => cont'[c].st = "Ok"
    /\ \A c \in ContIds, p \in Paths, e \in LoaderErrors :
           Terminal(cont[c]) /\ (CommitOk(c, p) \/ CommitError(c, e)) =>
               cont' = cont /\ hist' = hist /\ last'.op = "commit" /\ last'.out = "panic"

C3_CommitOnce == [][C3_Step]_vars

\* a second commit was refused on a container that commit_ok made Ok
C3_Witness ==
    /\ last.op = "commit" /\ last.out = "panic"
    /\ \E c \in ContIds : CommittedOk(c) /\ cont[c].st = "Ok"
    /\ \A c \in ContIds : Alive(c) => CommittedOk(c)

\* C4: the loader stores the terminal state and notifies under one hold of
\* the lock: an awaiter is woken only when the state is terminal, and the
\* poll that follows its wake-up resolves with what the state holds.
C4_Inv ==
    /\ ld.pc \in {"stored", "notified"} => lock[ld.c] = Loader /\ Terminal(cont[ld.c])
    /\ \A t \in Started : task[t].wakes > 0 \/ task[t].st = "woken" => Terminal(cont[Awaited(t)])

C4_Step ==
    \A t \in Tasks :
        task[t].st = "woken" /\ task'[t] # task[t] /\ task'[t].st # "dropped" =>
            LET s == cont[Awaited(t)] IN
            /\ task'[t].st = "done"
            /\ task'[t].out = (IF s.st = "Ok" THEN "Ok" ELSE "Err")
            /\ task'[t].err = s.error
            /\ s.st = "Ok" => task'[t].res.c = Awaited(t)

C4_CommitThenNotify == []C4_Inv /\ [][C4_Step]_vars

\* an awaiter woken while the loader still holds the lock
C4_Witness ==
    \E t \in Tasks : task[t].st = "woken" /\ ld.pc = "notified" /\ ld.c = Awaited(t)

\* C5: an await whose first poll finds the container terminal resolves in
\* that poll: it is never suspended, registered or woken; Ok gives a handle
\* of the same type to the same container (same key), LoadError the error.
C5_Inv ==
    /\ \A c \in ContIds : cont[c].st # "Pending" => cont[c].wakers = {}
    /\ \A t \in Started :
           task[t].first = "Terminal" =>
               /\ task[t].st = "done" /\ task[t].wakes = 0
               /\ \A c \in ContIds : t \notin cont[c].wakers
               /\ task[t].out \in {"Ok", "Err"}
               /\ task[t].out = "Ok" =>
                      /\ task[t].res.c = Awaited(t)
                      /\ Key(task[t].res) = Key(task[t].hv)
                      /\ task[t].res.ty = task[t].hv.ty

C5_Step ==
    \A t \in Tasks :
        task[t].st = "new" /\ Terminal(cont[Awaited(t)]) /\ task'[t] # task[t] /\ task'[t].st # "dropped" =>
            LET s == cont[Awaited(t)] IN
            /\ task'[t].st = "done" /\ task'[t].first = "Terminal"
            /\ task'[t].out = (IF s.st = "Ok" THEN "Ok" ELSE "Err")
            /\ task'[t].err = s.error
            /\ cont' = cont

C5_TerminalAwait == []C5_Inv /\ [][C5_Step]_vars

\* an await started on an Ok container, resolved with a handle to it
C5_Witness ==
    \E t \in Tasks :
        /\ task[t].first = "Terminal" /\ task[t].st = "done"
        /\ task[t].out = "Ok" /\ task[t].res.c = Awaited(t)
        /\ cont[Awaited(t)].st = "Ok"

\* C6: after commit_error(e) on a Pending container, every handle reports
\* is_failed_to_load and neither is_ok nor is_loading, and every awaiter of
\* the container that resolved did so with the error e of the commit.
C6_ErrorReachesAll ==
    \A c \in ContIds :
        CommittedError(c) /\ Alive(c) =>
            /\ \A hv \in AllHandles :
                   hv.c = c => IsFailedToLoad(hv) /\ ~IsOk(hv) /\ ~IsLoading(hv)
            /\ \A t \in Started :
                   Awaited(t) = c /\ task[t].st = "done" =>
                       task[t].out = "Err" /\ task[t].err = hist[c].err

\* C7: two handles are equal, hash equally and have the same key exactly
\* when they descend from the same constructor call (they are clones or
\* views of one container); the key of a handle is the same in every state.
C7_Inv ==
    \A a, b \in AllHandles :
        /\ ResourceEq(a, b) <=> a.root = b.root
        /\ Key(a) = Key(b) <=> a.root = b.root
        /\ ResourceHash(a) = ResourceHash(b) <=> a.root = b.root

C7_Step ==
    \A a, b \in AllHandles :
        /\ Key(a)' = Key(a)
        /\ ResourceEq(a, b)' = ResourceEq(a, b)

C7_Identity == []C7_Inv /\ [][C7_Step]_vars

\* two handles of one type built by separate constructor calls, with the same
\* state, path and type tag, and not equal
C7_Witness ==
    \E a, b \in Held :
        /\ a.root # b.root /\ a.ty = b.ty
        /\ cont[a.c] = cont[b.c]
        /\ ~ResourceEq(a, b) /\ Key(a) # Key(b)

\* C8: all handles of one container (clones, typed and untyped views, the
\* handles awaits own and return) read the same state, path and variant.
C8_SharedState ==
    \A a, b \in AllHandles :
        a.root = b.root =>
            /\ StateInner(a) = StateInner(b)
            /\ Path(a) = Path(b)
            /\ IsOk(a) = IsOk(b) /\ IsLoading(a) = IsLoading(b)
            /\ IsFailedToLoad(a) = IsFailedToLoad(b)

\* a typed and an untyped view of a container that was committed and whose
\* path was changed afterwards
C8_Witness ==
    \E a, b \in Held :
        /\ a.root = b.root /\ a.ty \in TypeTags /\ b.ty = Untyped
        /\ hist[a.c].commits = 1
        /\ Path(b) \notin CtorPaths

\* C9: From<UntypedResource> gives a typed handle when the container's type
\* tag is T's; otherwise it panics, the untyped handle is gone and no typed
\* handle is produced, whatever the container's state.
C9_Step ==
    \A hv \in Held, ty \in TypeTags :
        FromUntyped(hv, ty) =>
            IF cont[hv.c].type_uuid = ty
            THEN /\ last'.out = "ok"
                 /\ handles' = (handles (-) SetToBag({hv})) (+) SetToBag({[hv EXCEPT !.ty = ty]})
            ELSE /\ last'.op = "from" /\ last'.out = "panic"
                 /\ handles' = handles (-) SetToBag({hv})

C9_FromChecksTag == [][C9_Step]_vars

\* a conversion refused on a Pending container that another handle keeps alive
C9_Witness ==
    /\ last.op = "from" /\ last.out = "panic"
    /\ cont[last.hv.c].st = "Pending"
    /\ cont[last.hv.c].type_uuid # last.hv.ty

\* C10: dereferencing data_ref() panics on Pending and on LoadError and gives
\* the data only on Ok; get() reports Pending and LoadError with path and type
\* tag (and error), and get_mut() does not panic on them.
C10_Inv ==
    cs.pc = "guard" /\ StateInner(cs.hv).st \in {"Pending", "LoadError"} =>
        /\ Get(cs.hv).st = StateInner(cs.hv).st
        /\ Get(cs.hv).path = StateInner(cs.hv).path
        /\ Get(cs.hv).ty = StateInner(cs.hv).type_uuid
        /\ Get(cs.hv).err = StateInner(cs.hv).error

C10_Step ==
    /\ cs.pc = "dataref" /\ StateInner(cs.hv).st \in {"Pending", "LoadError"} =>
           /\ Deref => last'.out = "panic" /\ cs'.pc = "idle"
           /\ \A k \in WriteKinds, v \in WriteVals :
                  DerefMut(k, v) => last'.out = "panic" /\ cont' = cont
    /\ cs.pc = "dataref" /\ Deref /\ last'.out = "ok" => StateInner(cs.hv).st = "Ok"
    /\ cs.pc = "dataref" /\ cont'[cs.hv.c] # cont[cs.hv.c] => StateInner(cs.hv).st = "Ok"
    /\ cs.pc = "guard" /\ StateInner(cs.hv).st \in {"Pending", "LoadError"} =>
           \A k \in WriteKinds, v \in WriteVals : GetMut(k, v) => last'.out # "panic"

C10_Accessors == []C10_Inv /\ [][C10_Step]_vars

\* a dereference of data_ref() that panicked on a Pending container
C10_Witness ==
    /\ last.op = "deref" /\ last.out = "panic"
    /\ cont[last.hv.c].st = "Pending"

\* C11: Resource::default() builds a container that is Ok from its creation,
\* holds T::default(), has no waker and no commit pending on it; the loader
\* is not involved; an await of it is never suspended and resolves Ok in its
\* first poll.
C11_Step ==
    \A ty \in CtorTags :
        Default(ty) =>
            LET c == NewContId
                h == HandleVal(c, ty, c)
            IN /\ cont'[c] = OkState(DefaultPath, ty)
               /\ cont'[c].wakers = {}
               /\ hist'[c] = NoHist /\ ld' = ld /\ task' = task
               /\ handles' = handles (+) SetToBag({h})
               /\ cont'[c].st = "Ok"

C11_Inv ==
    \A t \in Started :
        cont[Awaited(t)].path = DefaultPath =>
            /\ cont[Awaited(t)].st = "Ok" /\ hist[Awaited(t)].commits = 0
            /\ task[t].st \notin {"suspended", "woken"}
            /\ task[t].st = "done" =>
                   task[t].out = "Ok" /\ task[t].first = "Terminal" /\ task[t].wakes = 0

C11_DefaultIsOk == []C11_Inv /\ [][C11_Step]_vars

\* an await of a default handle, resolved Ok
C11_Witness ==
    \E t \in Started :
        /\ cont[Awaited(t)] = OkState(DefaultPath, task[t].hv.ty)
        /\ task[t].st = "done" /\ task[t].out = "Ok"
        /\ task[t].res.c = Awaited(t)

\* C12: set_path(p) makes path() of every handle of the container return p
\* and changes only the path: variant, type tag, error and wakers of the
\* container, the other containers, the lock and the awaiters stay.
C12_Step ==
    \A hv \in Held, p \in Paths :
        SetPath(hv, p) =>
            /\ \A h \in AllHandles : h.c = hv.c => Path(h)' = p
            /\ cont' = [cont EXCEPT ![hv.c] = [st |-> @.st, path |-> p, type_uuid |-> @.type_uuid,
                                               wakers |-> @.wakers, error |-> @.error]]
            /\ hist' = hist /\ lock' = lock /\ task' = task /\ handles' = handles

C12_SetPath == [][C12_Step]_vars

\* set_path on a Pending container an awaiter is registered on
C12_Witness ==
    /\ last.op = "set_path"
    /\ cont[last.hv.c].st = "Pending" /\ cont[last.hv.c].wakers # {}
    /\ Path(last.hv) \notin CtorPaths

\* C13: try_acquire_state can always be called and returns at once: a guard
\* holding the lock when the lock was free, nothing when it was held, and
\* then lock, guards and containers are as before; the lock a guard holds
\* is released only by that guard going away.
C13_Inv ==
    /\ cs.pc = "idle" =>
           \A hv \in Held : hv.ty \in TypeTags => ENABLED TryAcquireState(hv)
    /\ cs.pc = "guard" => lock[cs.hv.c] = Consumer

C13_Step ==
    /\ \A hv \in Held :
           TryAcquireState(hv) =>
               /\ cont' = cont
               /\ IF lock[hv.c] = NoOne
                  THEN /\ lock' = [lock EXCEPT ![hv.c] = Consumer]
                       /\ cs' = [pc |-> "guard", hv |-> hv]
                       /\ last' = Quiet
                  ELSE /\ last'.op = "try_acquire_state" /\ last'.out = "none"
                       /\ lock' = lock /\ cs' = cs
    /\ \A c \in ContIds :
           lock[c] = Consumer /\ lock'[c] # Consumer =>
               cs.hv.c = c /\ cs'.pc = "idle" /\ lock'[c] = NoOne

C13_TryAcquire == []C13_Inv /\ [][C13_Step]_vars

\* an attempt refused while the loader holds the lock of the container
C13_Witness ==
    /\ last.op = "try_acquire_state" /\ last.out = "none"
    /\ ld.pc \in {"stored", "notified"} /\ lock[ld.c] = Loader
    /\ cs.pc = "idle"

\* the containers a dropped await has left a waker on
Abandoned(c) == \E t \in Tasks : task[t].st = "dropped" /\ Awaited(t) = c

\* C14: dropping an await in flight changes neither the container (unless
\* the await owned its last handle), nor the commits, the lock, the loader or
\* the other awaiters; a Pending container leaves Pending only by a commit;
\* the commit of a container with a dropped awaiter succeeds, its notification
\* wakes every suspended awaiter and skips the dropped one; the awaiters that
\* remain are woken once and resolve Ok after commit_ok.
C14_Inv ==
    \A t \in LiveTasks :
        Abandoned(Awaited(t)) =>
            /\ task[t].wakes <= 1
            /\ task[t].st = "suspended" =>
                   \/ cont[Awaited(t)].st = "Pending" /\ t \in cont[Awaited(t)].wakers
                   \/ ld.pc = "stored" /\ ld.c = Awaited(t) /\ t \in ld.taken
            /\ task[t].st = "done" /\ CommittedOk(Awaited(t)) =>
                   task[t].out = "Ok" /\ task[t].res.c = Awaited(t)

C14_Step ==
    /\ \A t \in Tasks :
           DropAwait(t) =>
               /\ UseCount(Awaited(t)) > 1 => cont' = cont
               /\ \A c \in ContIds : c # Awaited(t) => cont'[c] = cont[c]
               /\ cont'[Awaited(t)] \in {cont[Awaited(t)], DestroyedState}
               /\ hist' = hist /\ lock' = lock /\ ld' = ld /\ handles' = handles
               /\ \A u \in Tasks : u # t => task'[u] = task[u]
    /\ \A c \in ContIds :
           cont[c].st = "Pending" /\ cont'[c].st \notin {"Pending", "Destroyed"} =>
               hist'[c].commits = hist[c].commits + 1 /\ ld'.pc = "stored" /\ ld'.c = c
    /\ \A c \in ContIds, p \in Paths :
           cont[c].st = "Pending" /\ Abandoned(c) /\ CommitOk(c, p) =>
               cont'[c].st = "Ok" /\ last' = Quiet
    /\ CommitNotify =>
           \A t \in ld.taken :
               /\ task[t].st = "dropped" => task'[t] = task[t]
               /\ task[t].st = "suspended" => task'[t].st = "woken"

C14_DroppedAwait == []C14_Inv /\ [][C14_Step]_vars

\* an await dropped while it was registered on a Pending container that
\* another awaiter is suspended on
C14_Witness ==
    \E t, u \in Tasks :
        /\ task[t].st = "dropped" /\ task[u].st = "suspended"
        /\ Awaited(t) = Awaited(u)
        /\ cont[Awaited(t)].st = "Pending"
        /\ {t, u} \subseteq cont[Awaited(t)].wakers

\* every live handle of container c, one element for each: the copies held
\* by user code, the futures of awaits, the clones resolved awaits returned,
\* the loader's handle while it commits
LiveHandles(c) ==
    UNION {{<<"held", h, i>> : i \in 1..CopiesIn(h, handles)} : h \in {v \in Held : v.c = c}}
    \cup {<<"await", t>> : t \in {u \in LiveTasks : task[u].hv.c = c}}
    \cup {<<"result", t>> : t \in {u \in Tasks : task[u].st = "done" /\ task[u].out = "Ok" /\ task[u].res.c = c}}
    \cup (IF ld.c = c THEN {<<"loader">>} ELSE {})
    \cup (IF dm.pc # "none" /\ dm.resource.c = c THEN {<<"model">>} ELSE {})

\* C17: use_count is the number of live handles of the container; a
\* container is alive exactly while that number is at least 1, every handle
\* refers to a live container, and a container is destroyed in the step that
\* drops its last handle and in no other.
C17_Inv ==
    /\ \A c \in ContIds :
           LET n == UseCount(c) IN
           /\ n = Cardinality(LiveHandles(c))
           /\ Alive(c) <=> n >= 1
    /\ \A h \in AllHandles : Alive(h.c)

C17_Step ==
    /\ \A c \in ContIds :
           /\ Alive(c) /\ cont'[c].st = "Destroyed" => UseCount(c) = 1 /\ UseCount(c)' = 0
           /\ cont[c].st = "Destroyed" => cont'[c].st = "Destroyed"
    /\ handles' # handles =>
           \A hv \in Held :
               /\ Clone(hv) => UseCount(hv.c)' = UseCount(hv.c) + 1
               /\ Drop(hv) => UseCount(hv.c)' = UseCount(hv.c) - 1
    /\ \A t \in Tasks :
           task[t].st # "done" /\ task'[t].st = "done" /\ task'[t].out = "Ok" =>
               UseCount(Awaited(t))' = UseCount(Awaited(t)) + 1

C17_UseCount == []C17_Inv /\ [][C17_Step]_vars

\* one container destroyed with its last handle, another owned by a user
\* handle, an await and the clone the await returned
C17_Witness ==
    \E c, d \in ContIds :
        /\ cont[c].st = "Destroyed"
        /\ UseCount(d) = 3
        /\ \E t \in Tasks : task[t].st = "done" /\ task[t].out = "Ok" /\ task[t].res.c = d

\* C19: a commit takes every registered waker off the container and wakes
\* each once: a terminal container has no waker, an awaiter is woken at most
\* once and only by the notification of a commit of its own container, which
\* is terminal by then.
C19_Inv ==
    /\ \A c \in ContIds : cont[c].st # "Pending" => cont[c].wakers = {}
    /\ \A t \in Started :
           /\ task[t].wakes <= 1
           /\ task[t].wakes = 1 => hist[Awaited(t)].commits = 1 /\ cont[Awaited(t)].st # "Pending"

C19_Step ==
    /\ \A c \in ContIds :
           hist'[c].commits # hist[c].commits =>
               ld'.taken = cont[c].wakers /\ cont'[c].wakers = {}
    /\ \A t \in Tasks :
           task'[t].wakes > task[t].wakes =>
               /\ ld.pc = "stored" /\ ld'.pc = "notified" /\ ld'.taken = {}
               /\ t \in ld.taken /\ Awaited(t) = ld.c
               /\ Terminal(cont[ld.c]) /\ lock[ld.c] = Loader
               /\ task[t].st = "suspended" /\ task'[t].st = "woken"
    /\ CommitNotify =>
           \A t \in Tasks :
               IF t \in ld.taken /\ task[t].st = "suspended"
               THEN task'[t].wakes = 1
               ELSE task'[t] = task[t]

C19_WakersOnce == []C19_Inv /\ [][C19_Step]_vars

\* every awaiter woken by one notification, no waker left on the container
C19_Witness ==
    /\ ld.pc = "notified" /\ cont[ld.c].wakers = {}
    /\ \A t \in Tasks : task[t].st = "woken" /\ task[t].wakes = 1 /\ Awaited(t) = ld.c

\* C18: the state check and the registration of the waker are one critical
\* section, so no wakeup is lost: a suspended awaiter is registered on its
\* Pending container or is among the wakers a commit took to notify; a woken
\* awaiter finds the state terminal when it is polled again; and under fair
\* scheduling an awaiter of a committed container ends resolved (or dropped
\* by its owner).
C18_Inv ==
    \A t \in Tasks :
        /\ task[t].st = "suspended" =>
               \/ cont[Awaited(t)].st = "Pending" /\ t \in cont[Awaited(t)].wakers
               \/ ld.pc = "stored" /\ ld.c = Awaited(t) /\ t \in ld.taken
        /\ task[t].st = "woken" => Terminal(cont[Awaited(t)])

C18_Step ==
    \A t \in Tasks :
        /\ task[t].st = "woken" /\ task'[t] # task[t] => task'[t].st \in {"done", "dropped"}
        /\ task[t].st = "new" /\ task'[t].st = "suspended" =>
               /\ cont[Awaited(t)].st = "Pending" /\ lock[Awaited(t)] = NoOne
               /\ t \in cont'[Awaited(t)].wakers

C18_Resumed ==
    \A t \in Tasks :
        (task[t].st \in {"new", "suspended", "woken"} /\ hist[task[t].hv.c].commits = 1)
            ~> (task[t].st \in {"done", "dropped"})

C18_NoLostWakeup == []C18_Inv /\ [][C18_Step]_vars /\ C18_Resumed

\* an awaiter that was suspended, was woken by the commit and was resumed
C18_Witness ==
    \E t \in Tasks :
        /\ task[t].st = "done" /\ task[t].first = "Pending" /\ task[t].wakes = 1
        /\ hist[Awaited(t)].commits = 1 /\ ld.pc = "idle"

\* the handles an entity holds, found without the collector: the resource
\* leaves at the end of every path of items
RECURSIVE HandlesIn(_)
HandlesIn(entity) ==
    IF entity.kind = "resource" THEN {entity.res}
    ELSE IF entity.kind = "hash_map"
         THEN UNION {HandlesIn(entity.items[i][1]) \cup HandlesIn(entity.items[i][2]) : i \in DOMAIN entity.items}
         ELSE UNION {HandlesIn(entity.items[i]) : i \in DOMAIN entity.items}

ContainersOf(S) == {UntypedKey(h) : h \in S}

\* C15 as stated: the number of entries a call adds is the number of
\* distinct containers the entity refers to.
C15_AddsOnePerContainer ==
    walk.pc = "done" =>
        Cardinality(walk.collection) - Cardinality(walk.before)
            = Cardinality(ContainersOf(HandlesIn(walk.entity)))

\* C15, amended: the collection is keyed by container; a call keeps what
\* the collection held and adds one entry for each container the entity
\* refers to that the collection did not hold yet, so that from an empty
\* collection the result has as many entries as the entity refers to
\* distinct containers.
C15_Deduplicated ==
    walk.pc = "done" =>
        /\ walk.before \subseteq walk.collection
        /\ walk.collection \subseteq walk.before \cup HandlesIn(walk.entity)
        /\ \A a, b \in walk.collection : UntypedEq(a, b) => a = b
        /\ ContainersOf(walk.collection) = ContainersOf(walk.before) \cup ContainersOf(HandlesIn(walk.entity))
        /\ Cardinality(walk.collection) - Cardinality(walk.before)
               = Cardinality(ContainersOf(HandlesIn(walk.entity)) \ ContainersOf(walk.before))
        /\ walk.before = {} =>
               Cardinality(walk.collection) = Cardinality(ContainersOf(HandlesIn(walk.entity)))

\* three handle values, two of one container and one of another, collected
\* into an empty collection: two entries
C15_Witness ==
    /\ walk.pc = "done" /\ walk.before = {}
    /\ HandlesIn(walk.entity) = WalkHandles
    /\ Cardinality(walk.collection) = 2

\* C16: once a save has completed and the saved flag is still set, a further
\* save(path), with any path, changes nothing: neither the path or the state
\* of the container, nor the files, nor the flag, and it starts no step of
\* the save.
C16_Step ==
    \A p \in Paths :
        dm.saved /\ Save(p) =>
            /\ cont' = cont /\ hist' = hist /\ lock' = lock
            /\ disk' = disk
            /\ dm' = dm

\* the steps of a save run only while the flag is clear, and a set flag
\* stays set until a modification clears it
C16_Inv == dm.pc \in {"set_path", "state", "write", "written", "flag"} => ~dm.saved

C16_FlagStep == dm.saved /\ ~dm'.saved => Modify

C16_SaveIdempotent == []C16_Inv /\ [][C16_Step /\ C16_FlagStep]_vars

\* a second save, with another path than the one the file was written to,
\* has returned without effect
C16_Witness ==
    /\ dm.saved /\ dm.pc = "idle"
    /\ last = Op("save", NoHandle, "ok")
    /\ \E p \in Paths : disk[p] # NoVal /\ cont[dm.resource.c].path = p
    /\ \E q \in Paths : disk[q] = NoVal

\* C20: the lock of a container is not held while a file is written or
\* while wakers are invoked: when DataModel::save is about to write the
\* file, or a commit is about to invoke the wakers it took, the lock of the
\* container is free.
C20_LockFreeDuringIO ==
    /\ dm.pc = "write" => lock[dm.resource.c] = NoOne
    /\ ld.pc = "stored" /\ ld.taken # {} => lock[ld.c] = NoOne

\* the guards that are live on container c: the consumer's (state,
\* try_acquire_state, data_ref), the loader's during a commit, the editor's
\* during a save
GuardsOn(c) ==
    (IF cs.pc \in {"guard", "dataref"} /\ cs.hv.c = c THEN {Consumer} ELSE {})
    \cup (IF ld.pc \in {"stored", "notified"} /\ ld.c = c THEN {Loader} ELSE {})
    \cup (IF dm.pc \in {"write", "written"} /\ dm.resource.c = c THEN {Editor} ELSE {})

\* C21: at most one guard on a container is live at any time, the lock is
\* held exactly while a guard is live (so it is released on every exit path,
\* a panic of the unchecked accessor included), and a held lock becomes free
\* again, so that a caller waiting for it gets it.
C21_Inv ==
    \A c \in ContIds :
        /\ Cardinality(GuardsOn(c)) <= 1
        /\ lock[c] = NoOne <=> GuardsOn(c) = {}
        /\ lock[c] # NoOne => GuardsOn(c) = {lock[c]}

C21_Step ==
    /\ \A c \in ContIds :
           lock[c] # NoOne /\ lock'[c] # lock[c] => lock'[c] = NoOne
    /\ last'.out = "panic" /\ last' # last /\ cs.pc # "idle" /\ last'.op \in {"deref", "deref_mut", "get_mut"} =>
           cs'.pc = "idle" /\ lock'[cs.hv.c] = NoOne

C21_Released == \A c \in ContIds : lock[c] # NoOne ~> lock[c] = NoOne

C21_OneGuard == []C21_Inv /\ [][C21_Step]_vars /\ C21_Released

\* the unchecked accessor panicked on a container that is not Ok, and the
\* lock it held is free
C21_Witness ==
    /\ last.op = "deref" /\ last.out = "panic"
    /\ cs.pc = "idle"
    /\ cont[last.hv.c].st \in {"Pending", "LoadError"}
    /\ lock[last.hv.c] = NoOne

\* C22: every typed handle that exists (held by user code, owned by an
\* await or returned by one) refers to a container whose type tag is the
\* handle's type.
C22_TypedHandlesMatch ==
    \A h \in AllHandles : h.ty \in TypeTags => cont[h.c].type_uuid = h.ty

\* how many of the three predicates hold of a handle's container
VariantsTrue(hv) ==
    (IF IsLoading(hv) THEN 1 ELSE 0) + (IF IsOk(hv) THEN 1 ELSE 0) + (IF IsFailedToLoad(hv) THEN 1 ELSE 0)

\* C23: of is_loading, is_ok and is_failed_to_load exactly one is true of
\* every handle, in every state; new_pending makes a handle with is_loading
\* true and no wakers, new_ok one with is_ok true, new_load_error one with
\* is_failed_to_load true.
C23_Inv == \A h \in AllHandles : VariantsTrue(h) = 1

C23_Step ==
    \A c \in ContIds, ty \in CtorTags, p \in CtorPaths :
        LET h == HandleVal(c, ty, c) IN
        c = NewContId =>
            /\ NewPending(ty, p) => IsLoading(h)' /\ cont'[c].wakers = {} /\ h \in Held'
            /\ NewOk(ty, p) => IsOk(h)' /\ h \in Held'
            /\ \A e \in CtorErrors : NewLoadError(ty, p, e) => IsFailedToLoad(h)' /\ h \in Held'

C23_OneVariant == []C23_Inv /\ [][C23_Step]_vars

\* a handle still loading next to one whose load failed
C23_Witness ==
    \E h1, h2 \in Held :
        /\ IsLoading(h1) /\ ~IsOk(h1) /\ ~IsFailedToLoad(h1)
        /\ IsFailedToLoad(h2) /\ ~IsOk(h2) /\ ~IsLoading(h2)
        /\ hist[h2.c].commits = 1

\* the step is one of the consumer operations that take or give a handle,
\* a guard or an awaiter
ConsumerOp ==
    \/ \E hv \in Held : Clone(hv) \/ Drop(hv) \/ IntoUntyped(hv) \/ State(hv)
                             \/ TryAcquireState(hv) \/ DataRef(hv)
    \/ \E hv \in Held, ty \in TypeTags : FromUntyped(hv, ty)
    \/ \E t \in Tasks, hv \in Held : StartAwait(t, hv)
    \/ \E t \in Tasks : Poll(t) \/ DropAwait(t)
    \/ GuardDrop

\* variant, type tag, data (its path) and error of container c stay, and
\* no waker is taken away
SameContent(c) ==
    /\ cont'[c].st = cont[c].st
    /\ cont'[c].type_uuid = cont[c].type_uuid
    /\ cont'[c].path = cont[c].path
    /\ cont'[c].error = cont[c].error
    /\ cont[c].wakers \subseteq cont'[c].wakers

\* C24: only a commit of the loader changes the variant of a container, and
\* it does so from Pending; clone, drop, the conversions, state,
\* try_acquire_state, data_ref and poll/await leave variant, type tag, data
\* and error of every container that stays alive as they are, and only a
\* poll on a Pending container adds a waker.
C24_Step ==
    /\ \A c \in ContIds :
           Alive(c) /\ cont'[c].st # cont[c].st /\ cont'[c].st # "Destroyed" =>
               /\ cont[c].st = "Pending"
               /\ hist'[c].commits = hist[c].commits + 1
               /\ ld'.c = c /\ lock'[c] = Loader
    /\ cont' # cont /\ ConsumerOp =>
           /\ hist' = hist
           /\ \A c \in ContIds :
                  \/ Alive(c) /\ cont'[c].st = "Destroyed" /\ UseCount(c) = 1
                  \/ /\ SameContent(c)
                     /\ cont'[c].wakers # cont[c].wakers =>
                            /\ cont[c].st = "Pending"
                            /\ \E t \in Tasks : Poll(t) /\ Awaited(t) = c /\ cont'[c].wakers = cont[c].wakers \cup {t}

C25_Complete ==
    walk.pc = "done" =>
        /\ \A h \in HandlesIn(walk.entity) : \E e \in walk.collection : UntypedEq(e, h)
        /\ \A e \in walk.before : e \in walk.collection
        /\ \A e \in walk.collection \ walk.before :
               /\ e \in HandlesIn(walk.entity)
               /\ ~\E b \in walk.before : UntypedEq(b, e)

\* a handle found as the key of a hash map nested in a structure, added to
\* a collection that held a handle of another container
C25_Witness ==
    /\ walk.pc = "done"
    /\ walk.entity.kind = "struct" /\ Len(walk.entity.items) = 2
    /\ LET m == walk.entity.items[2] IN
          /\ m.kind = "hash_map" /\ Len(m.items) = 1
          /\ m.items[1][1].kind = "resource" /\ m.items[1][2].kind = "numbers"
          /\ m.items[1][1].res \in walk.collection \ walk.before
    /\ walk.entity.items[1].kind = "numbers"
    /\ Cardinality(walk.before) = 1 /\ Cardinality(walk.collection) = 2

\* the entities of the tree of an entity, itself included
RECURSIVE NodeCount(_)
NodeCount(entity) ==
    LET n == Len(entity.items)
        sum[i \in 0..n] ==
            IF i = 0 THEN 0
            ELSE sum[i - 1] + (IF entity.kind = "hash_map"
                               THEN NodeCount(entity.items[i][1]) + NodeCount(entity.items[i][2])
                               ELSE NodeCount(entity.items[i]))
    IN 1 + sum[n]

RECURSIVE NodesOf(_)
NodesOf(q) == IF q = <<>> THEN 0 ELSE NodeCount(Head(q)) + NodesOf(Tail(q))

\* C26: the walk terminates: every call is made on an entity of the tree
\* of the walked entity, once, so that the calls made and those still to
\* make add up to the entities of that tree; a handle and a vector of
\* numbers are leaves; the data of the containers, which refer to each
\* other, is never entered, and a handle that is only there is not
\* collected; the walk ends with what the recursive function computes.
C26_Inv ==
    /\ walk.calls + NodesOf(walk.stack) = NodeCount(walk.entity)
    /\ walk.collection \subseteq HandlesIn(walk.entity)
    /\ walk.pc = "done" =>
           /\ walk.calls = NodeCount(walk.entity)
           /\ walk.collection = CollectUsedResources(walk.entity, {})

C26_Step ==
    walk.stack # <<>> /\ Head(walk.stack).kind \in {"resource", "numbers"} =>
        walk'.stack = Tail(walk.stack)

C26_Ends == <>(walk.pc = "done")

C26_Terminates == []C26_Inv /\ [][C26_Step]_vars /\ C26_Ends

\* a walk that ended on an entity holding, among others, a handle of
\* container 1, whose data refers to container 2: nothing of container 2
\* was collected
C26_Witness ==
    /\ walk.pc = "done" /\ walk.calls >= 4
    /\ ContainersOf(HandlesIn(walk.entity)) = {1}
    /\ 2 \in ContainersOf(HandlesIn(DataOf(CHOOSE h \in HandlesIn(walk.entity) : TRUE)))
    /\ ContainersOf(walk.collection) = {1}

\* C27: the model is marked clean only after the data was written: the flag
\* is set only as the last step of a save that found the resource Ok, set
\* its path to the path given and wrote the file at that path; on a resource
\* that is Pending or LoadError the save panics, writes nothing and leaves
\* the flag clear.
C27_Inv ==
    /\ dm.pc \in {"state", "write", "written", "flag"} => cont[dm.resource.c].st = "Ok"
    /\ dm.pc \in {"written", "flag"} => disk[dm.path] = Definition(cont[dm.resource.c])

C27_Step ==
    /\ ~dm.saved /\ dm'.saved => dm.pc = "flag" /\ dm'.pc = "idle"
    /\ dm.pc # "flag" /\ dm'.pc = "flag" => dm.pc = "written"
    /\ dm.pc # "written" /\ dm'.pc = "written" =>
           dm.pc = "write" /\ disk'[dm.path] # NoVal /\ lock[dm.resource.c] = Editor
    /\ dm.pc # "state" /\ dm'.pc = "state" =>
           dm.pc = "set_path" /\ cont[dm.resource.c].st = "Ok" /\ cont'[dm.resource.c].path = dm.path
    /\ dm.pc = "set_path" /\ dm' # dm /\ cont[dm.resource.c].st # "Ok" =>
           /\ last'.out = "panic"
           /\ dm'.pc = "idle" /\ ~dm'.saved
           /\ disk' = disk /\ cont' = cont /\ lock' = lock

C27_CleanAfterWrite == []C27_Inv /\ [][C27_Step]_vars

\* a save to b.anim has completed: the flag is set, the file is there and
\* the resource has that path
C27_Witness ==
    /\ dm.saved /\ dm.pc = "idle" /\ last = Quiet
    /\ disk["b.anim"] # NoVal /\ disk["a.anim"] = NoVal
    /\ cont[dm.resource.c].path = "b.anim"

\* ---------------------------------------------------------------------
\* The text box (src/gui/text_box.rs)
\* ---------------------------------------------------------------------

\* printable characters; control characters are refused by insert_char
Chars == {"a", "b"}

Texts == SeqsUpTo(Chars, MaxText)

\* FormattedText::get_lines after build: the text broken into lines of at
\* most LineWidth characters, each with begin and end (exclusive) indices
\* into the raw text; an empty text has no lines
Lines(text) ==
    [i \in 1..((Len(text) + LineWidth - 1) \div LineWidth) |->
        [begin |-> (i - 1) * LineWidth,
         end |-> IF i * LineWidth < Len(text) THEN i * LineWidth ELSE Len(text)]]

\* TextLine::len
LineLen(line) == line.end - line.begin

\* Position { line, offset }
Position(line, offset) == [line |-> line, offset |-> offset]

\* Some(SelectionRange { begin, end })
SelectionRange(begin, end) == [begin |-> begin, end |-> end, some |-> TRUE]

\* Option<usize> / Option<Position>
None == [some |-> FALSE]
Some(v) == [some |-> TRUE, v |-> v]

\* the cells of the screen a mouse event can point at
ScreenCells ==
    {Position(l, o) : l \in 0..((MaxText + LineWidth - 1) \div LineWidth), o \in 0..(LineWidth - 1)}

MouseButtons == {"Left", "Right"}

KeyCodes == {"Up", "Down", "Right", "Left", "Delete", "Back", "Other"}

\* TextBox::move_caret_x(1, direction): one turn of the loop; an index past
\* the lines panics
MoveCaretX(t, direction) ==
    LET lines == Lines(t.text)
        s == [t EXCEPT !.selection_range = NoSelection]
    IN  IF Len(lines) = 0
        THEN [s EXCEPT !.caret_offset = 0, !.caret_line = 0]
        ELSE IF direction = "Left"
        THEN IF s.caret_offset > 0
             THEN [s EXCEPT !.caret_offset = @ - 1]
             ELSE IF s.caret_line > 0
             THEN IF s.caret_line - 1 < Len(lines)
                  THEN [s EXCEPT !.caret_line = @ - 1,
                                 !.caret_offset = LineLen(lines[s.caret_line])]
                  ELSE [s EXCEPT !.caret_line = @ - 1, !.out = "panic"]
             ELSE [s EXCEPT !.caret_offset = 0]
        ELSE IF s.caret_line >= Len(lines)
             THEN [s EXCEPT !.out = "panic"]
             ELSE LET line == lines[s.caret_line + 1]
                  IN  IF s.caret_offset < LineLen(line)
                      THEN [s EXCEPT !.caret_offset = @ + 1]
                      ELSE IF s.caret_line < Len(lines) - 1
                      THEN [s EXCEPT !.caret_line = @ + 1, !.caret_offset = 0]
                      ELSE [s EXCEPT !.caret_offset = LineLen(line)]

\* TextBox::move_caret_y(1, direction)
MoveCaretY(t, direction) ==
    LET line_count == Len(Lines(t.text))
    IN  IF line_count = 0
        THEN t
        ELSE IF direction = "Down"
        THEN IF t.caret_line + 1 >= line_count
             THEN [t EXCEPT !.caret_line = line_count - 1]
             ELSE [t EXCEPT !.caret_line = @ + 1]
        ELSE IF t.caret_line > 1
             THEN [t EXCEPT !.caret_line = @ - 1]
             ELSE [t EXCEPT !.caret_line = 0]

\* TextBox::get_absolute_position
GetAbsolutePosition(t) ==
    LET lines == Lines(t.text)
    IN  IF t.caret_line < Len(lines)
        THEN LET line == lines[t.caret_line + 1]
             IN  Some(line.begin + (IF t.caret_offset < LineLen(line)
                                    THEN t.caret_offset ELSE LineLen(line)))
        ELSE None

\* FormattedText::insert_char(c, position): Vec::insert
InsertAt(text, c, position) ==
    SubSeq(text, 1, position) \o <<c>> \o SubSeq(text, position + 1, Len(text))

\* FormattedText::remove_at(position): Vec::remove
RemoveAt(text, position) ==
    SubSeq(text, 1, position) \o SubSeq(text, position + 2, Len(text))

\* TextBox::insert_char for a character that is not a control character
InsertChar(t, c) ==
    LET p == GetAbsolutePosition(t)
        position == IF p.some THEN p.v ELSE 0
    IN  MoveCaretX([t EXCEPT !.text = InsertAt(t.text, c, position)], "Right")

\* TextBox::get_text_len
GetTextLen(t) == Len(t.text)

\* TextBox::remove_char
RemoveChar(t, direction) ==
    LET p == GetAbsolutePosition(t)
    IN  IF ~p.some \/ GetTextLen(t) = 0
        THEN t
        ELSE IF direction = "Left"
        THEN IF p.v = 0
             THEN t
             ELSE MoveCaretX([t EXCEPT !.text = RemoveAt(t.text, p.v - 1)], "Left")
        ELSE IF p.v >= GetTextLen(t)
             THEN t
             ELSE [t EXCEPT !.text = RemoveAt(t.text, p.v)]

\* TextBox::screen_pos_to_text_pos: the character under the screen cell
ScreenPosToTextPos(t, pos) ==
    LET lines == Lines(t.text)
    IN  IF pos.line < Len(lines) /\ pos.offset < LineLen(lines[pos.line + 1])
        THEN Some(pos)
        ELSE None

\* the event handled last
Event(kind, arg) == [kind |-> kind, arg |-> arg]

TextInit ==
    /\ Init!1 /\ Init!2 /\ Init!3 /\ Init!4 /\ Init!5 /\ Init!6 /\ Init!7 /\ Init!8
    /\ walk = NoWalk
    /\ dm = NoModel
    /\ disk = NoDisk
    /\ \E text \in Texts : tb = [NoTextBox EXCEPT !.text = text]

\* UIEventKind::Text { symbol }
Text(symbol) ==
    /\ tb.out = "ok"
    /\ Len(tb.text) < MaxText
    /\ tb' = [InsertChar(tb, symbol) EXCEPT !.evt = Event("Text", symbol)]
    /\ UNCHANGED <<cont, hist, lock, handles, task, ld, cs, last, walk, dm, disk>>

\* UIEventKind::KeyDown { code }
KeyDown(code) ==
    /\ tb.out = "ok"
    /\ tb' = [(CASE code = "Up" -> MoveCaretY(tb, "Up")
                 [] code = "Down" -> MoveCaretY(tb, "Down")
                 [] code = "Right" -> MoveCaretX(tb, "Right")
                 [] code = "Left" -> MoveCaretX(tb, "Left")
                 [] code = "Delete" -> RemoveChar(tb, "Right")
                 [] code = "Back" -> RemoveChar(tb, "Left")
                 [] OTHER -> tb)
              EXCEPT !.evt = Event("KeyDown", code)]
    /\ UNCHANGED <<cont, hist, lock, handles, task, ld, cs, last, walk, dm, disk>>

\* UIEventKind::MouseDown { pos, button }
MouseDown(pos, button) ==
    /\ tb.out = "ok"
    /\ LET position == ScreenPosToTextPos(tb, pos)
       IN  tb' = IF button = "Left"
                 THEN IF position.some
                      THEN [tb EXCEPT !.selecting = TRUE,
                                      !.caret_line = position.v.line,
                                      !.caret_offset = position.v.offset,
                                      !.selection_range = SelectionRange(position.v, position.v),
                                      !.evt = Event("MouseDown", button)]
                      ELSE [tb EXCEPT !.selecting = TRUE,
                                      !.selection_range = NoSelection,
                                      !.evt = Event("MouseDown", button)]
                 ELSE [tb EXCEPT !.evt = Event("MouseDown", button)]
    /\ UNCHANGED <<cont, hist, lock, handles, task, ld, cs, last, walk, dm, disk>>

\* a MouseMove handler that does not look at selecting
MouseMoveAlways(pos) ==
    /\ tb.out = "ok"
    /\ LET position == ScreenPosToTextPos(tb, pos)
       IN  tb' = IF position.some /\ tb.selection_range.some
                 THEN [tb EXCEPT !.selection_range.end = position.v,
                                 !.evt = Event("MouseMove", "")]
                 ELSE [tb EXCEPT !.evt = Event("MouseMove", "")]
    /\ UNCHANGED <<cont, hist, lock, handles, task, ld, cs, last, walk, dm, disk>>

\* UIEventKind::MouseMove { pos }
MouseMove(pos) ==
    /\ tb.out = "ok"
    /\ LET position == ScreenPosToTextPos(tb, pos)
       IN  tb' = IF tb.selecting /\ position.some /\ tb.selection_range.some
                 THEN [tb EXCEPT !.selection_range.end = position.v,
                                 !.evt = Event("MouseMove", "")]
                 ELSE [tb EXCEPT !.evt = Event("MouseMove", "")]
    /\ UNCHANGED <<cont, hist, lock, handles, task, ld, cs, last, walk, dm, disk>>

\* UIEventKind::MouseUp { .. }
MouseUp(button) ==
    /\ tb.out = "ok"
    /\ tb' = [tb EXCEPT !.selecting = FALSE, !.evt = Event("MouseUp", button)]
    /\ UNCHANGED <<cont, hist, lock, handles, task, ld, cs, last, walk, dm, disk>>

\* impl Draw for TextBox: the selection is drawn; a selection on one line
\* indexes the lines with its line
TextBoxDraw ==
    /\ tb.out = "ok"
    /\ LET lines == Lines(tb.text)
           sel == tb.selection_range
       IN  tb' = IF sel.some /\ sel.begin.line = sel.end.line /\ sel.begin.line >= Len(lines)
                 THEN [tb EXCEPT !.evt = Event("Draw", ""), !.out = "panic"]
                 ELSE [tb EXCEPT !.evt = Event("Draw", "")]
    /\ UNCHANGED <<cont, hist, lock, handles, task, ld, cs, last, walk, dm, disk>>

TextNext ==
    \/ \E symbol \in Chars : Text(symbol)
    \/ \E code \in KeyCodes : KeyDown(code)
    \/ \E pos \in ScreenCells, button \in MouseButtons : MouseDown(pos, button)
    \/ \E pos \in ScreenCells : MouseMove(pos)
    \/ \E button \in MouseButtons : MouseUp(button)
    \/ TextBoxDraw

TextSpec == TextInit /\ [][TextNext]_vars

\* ---------------------------------------------------------------------
\* C28: after any sequence of text box events, starting from the caret at
\* line 0 offset 0, the caret line is smaller than the number of lines
\* whenever the text has at least one line, so a key or character event
\* never panics on a missing line and the absolute position of the caret
\* is not greater than the length of the text.
C28_CaretInLines ==
    /\ Len(Lines(tb.text)) > 0 => tb.caret_line < Len(Lines(tb.text))
    /\ tb.evt.kind \in {"Text", "KeyDown"} => tb.out = "ok"
    /\ GetAbsolutePosition(tb).some => GetAbsolutePosition(tb).v <= Len(tb.text)

\* C29: whenever the text box is drawn, a selection range that is present
\* refers to existing text: its begin and end lines are lines of the text
\* and its offsets lie within them, whatever events came before (a Delete,
\* Back, Up or Down key after a mouse selection included), and drawing it
\* does not panic.
C29_SelectionInText ==
    LET lines == Lines(tb.text)
        sel == tb.selection_range
    IN  tb.evt.kind = "Draw" /\ sel.some =>
            /\ tb.out = "ok"
            /\ sel.begin.line < Len(lines)
            /\ sel.end.line < Len(lines)
            /\ sel.begin.offset <= LineLen(lines[sel.begin.line + 1])
            /\ sel.end.offset <= LineLen(lines[sel.end.line + 1])

\* C30: the selection follows the mouse protocol: selecting is true exactly
\* from a left-button MouseDown until the next MouseUp; a selection range
\* is started only by a left-button MouseDown, at the character under the
\* mouse; a MouseMove changes nothing but the end of the selection, and
\* that only while selecting is true and a selection range is present; a
\* MouseMove received when selecting is false changes neither the
\* selection nor the caret.
C30_Inv ==
    /\ tb.evt = Event("MouseDown", "Left") => tb.selecting
    /\ tb.evt.kind = "MouseUp" => ~tb.selecting

C30_Step ==
    /\ tb'.selecting # tb.selecting =>
           \/ tb'.evt = Event("MouseDown", "Left") /\ tb'.selecting
           \/ tb'.evt.kind = "MouseUp" /\ ~tb'.selecting
    /\ tb'.selection_range.some /\ ~tb.selection_range.some =>
           /\ tb'.evt = Event("MouseDown", "Left")
           /\ tb'.selection_range.begin = Position(tb'.caret_line, tb'.caret_offset)
           /\ tb'.selection_range.end = tb'.selection_range.begin
    /\ tb'.evt.kind = "MouseMove" =>
           /\ tb'.text = tb.text
           /\ tb'.caret_line = tb.caret_line /\ tb'.caret_offset = tb.caret_offset
           /\ tb'.selecting = tb.selecting
           /\ tb'.selection_range.some = tb.selection_range.some
           /\ tb'.selection_range.begin = tb.selection_range.begin
           /\ tb'.selection_range # tb.selection_range =>
                  /\ tb.selecting /\ tb.selection_range.some
                  /\ ScreenPosToTextPos(tb, tb'.selection_range.end).some
           /\ ~tb.selecting => tb'.selection_range = tb.selection_range

C30_MouseProtocol == []C30_Inv /\ [][C30_Step]_vars

\* a MouseMove has moved the end of a selection started by a MouseDown
C30_Witness ==
    /\ tb.evt.kind = "MouseMove" /\ tb.selecting /\ tb.out = "ok"
    /\ tb.selection_range.some
    /\ tb.selection_range.end # tb.selection_range.begin
    /\ tb.selection_range.begin = Position(tb.caret_line, tb.caret_offset)
====
